---------------------------- MODULE Spec2Model ----------------------------
(***************************************************************************)
(* A model of the WhatsApp chat analyser: preprocessor.preprocess (the     *)
(* tokenizer, the timestamp normalizer, the message classifier and the     *)
(* record builder) and the aggregations of helper.py, as app.py calls them *)
(* on the session's DataFrame.                                             *)
(*                                                                         *)
(* Text is a sequence of one-character strings.  Library behaviour is that *)
(* of CPython's re and of pandas 2.x (groupby observed=False by default,   *)
(* boolean indexing returns a copy).                                       *)
(***************************************************************************)
EXTENDS Integers, Sequences, FiniteSets, TLC

VARIABLES data, df, out, message, entry

vars == <<data, df, out, message, entry>>

(***************************************************************************)
(* Evaluation helpers                                                      *)
(***************************************************************************)
\* F(x), with x evaluated once.
With(x, F(_)) == CHOOSE r \in {F(v) : v \in {x}} : TRUE

\* The sequence F(1), ..., F(n).
SeqOf(n, F(_)) == [i \in 1..n |-> F(i)] \o <<>>

(***************************************************************************)
(* Characters and strings                                                  *)
(***************************************************************************)
Chars(s) == SeqOf(Len(s), LAMBDA i : SubSeq(s, i, i))

Digits == {"0", "1", "2", "3", "4", "5", "6", "7", "8", "9"}

\* What \s matches and what str.strip() removes.
Whitespace == {" ", "\t", "\n", "\r", "\f"}

\* The keys of emoji.EMOJI_DATA that occur in the modelled chats; each is one
\* character of the text, written by its code point.
EMOJI_DATA == {"U+1F600", "U+1F602"}

\* The printable ASCII characters in code point order, from 32 (space) on.
Ascii ==
    Chars(" !") \o <<"U+0022">> \o Chars("#$%&'") \o <<"(", ")", "*">>
    \o Chars("+,-./0123456789:;<=>?@ABCDEFGHIJKLMNOPQRSTUVWXYZ[") \o <<"\\">>
    \o Chars("]^_") \o <<"U+0060">> \o Chars("abcdefghijklmnopqrstuvwxyz{|}~")

\* ord(c)
CodePoint(c) ==
    IF c = "\t" THEN 9
    ELSE IF c = "\n" THEN 10
    ELSE IF c = "\f" THEN 12
    ELSE IF c = "\r" THEN 13
    ELSE IF c = "U+1F600" THEN 128512
    ELSE IF c = "U+1F602" THEN 128514
    ELSE 31 + (CHOOSE i \in 1..Len(Ascii) : Ascii[i] = c)

DigitValue(c) == CodePoint(c) - 48

\* The first position where s and t differ (one past the shorter, when one
\* is a prefix of the other).
FirstDifference(s, t) ==
    CHOOSE k \in 1..(Len(s) + 1) :
        /\ \A i \in 1..(k - 1) : i <= Len(t) /\ s[i] = t[i]
        /\ (k > Len(s) \/ k > Len(t) \/ s[k] # t[k])

\* s < t for Python strings (lexicographic by code point).
StrLess(s, t) ==
    \E k \in {FirstDifference(s, t)} :
        /\ k <= Len(t)
        /\ (k > Len(s) \/ CodePoint(s[k]) < CodePoint(t[k]))

\* Number of leading characters of s, from position p on, that lie in set.
RunLen(s, p, set) ==
    CHOOSE r \in 0..(Len(s) + 1) :
        /\ \A i \in p..(p + r - 1) : i <= Len(s) /\ s[i] \in set
        /\ (p + r > Len(s) \/ s[p + r] \notin set)

\* Number of trailing characters of s that lie in set.
RunLenBack(s, set) ==
    CHOOSE r \in 0..Len(s) :
        /\ \A i \in (Len(s) - r + 1)..Len(s) : s[i] \in set
        /\ (r = Len(s) \/ s[Len(s) - r] \notin set)

\* s.strip(chars): drop the characters of `set` from both ends.
str_lstrip(s, set) ==
    With(s, LAMBDA v : SubSeq(v, RunLen(v, 1, set) + 1, Len(v)))

str_strip(s, set) ==
    With(str_lstrip(s, set), LAMBDA l : SubSeq(l, 1, Len(l) - RunLenBack(l, set)))

\* The decimal value of the digit string s.
RECURSIVE DecValue(_)
DecValue(s) ==
    IF Len(s) = 0 THEN 0
    ELSE 10 * DecValue(SubSeq(s, 1, Len(s) - 1)) + DigitValue(s[Len(s)])

\* Whether pat occurs in s at position p.
OccursAt(s, p, pat) ==
    /\ p + Len(pat) - 1 <= Len(s)
    /\ \A i \in 1..Len(pat) : s[p + i - 1] = pat[i]

\* str.contains for a literal pattern.
Contains(s, pat) == \E p \in 1..(Len(s) + 1) : OccursAt(s, p, pat)

(***************************************************************************)
(* Tokenizer: the delimiter pattern                                        *)
(*     \d{1,2}/\d{1,2}/\d{2,4},\s\d{1,2}:\d{2}\s-\s                        *)
(* Every digit group is followed by a character that is no digit, so the   *)
(* group matches exactly the digit run that starts at its position.        *)
(* A position of 0 means "no match".                                       *)
(***************************************************************************)
\* \d{lo,hi} followed by one character of lits: the position after it.
AfterDigitsLit(s, p, lo, hi, lits) ==
    IF p = 0 THEN 0
    ELSE With(RunLen(s, p, Digits), LAMBDA r :
            IF r >= lo /\ r <= hi /\ p + r <= Len(s) /\ s[p + r] \in lits
            THEN p + r + 1
            ELSE 0)

\* One character of lits: the position after it.
AfterLit(s, p, lits) ==
    IF p # 0 /\ p <= Len(s) /\ s[p] \in lits THEN p + 1 ELSE 0

\* The pattern matched at position p of s: the position after the match.
PatternMatch(s, p) ==
    With(AfterDigitsLit(s, p, 1, 2, {"/"}), LAMBDA p1 :
    With(AfterDigitsLit(s, p1, 1, 2, {"/"}), LAMBDA p2 :
    With(AfterDigitsLit(s, p2, 2, 4, {","}), LAMBDA p3 :
    With(AfterLit(s, p3, Whitespace), LAMBDA p4 :
    With(AfterDigitsLit(s, p4, 1, 2, {":"}), LAMBDA p5 :
    With(AfterDigitsLit(s, p5, 2, 2, Whitespace), LAMBDA p6 :
    With(AfterLit(s, p6, {"-"}), LAMBDA p7 :
         AfterLit(s, p7, Whitespace))))))))

\* Where the pattern matches: for each position, the position after the
\* match that starts there, or 0.
match_ends(s) == SeqOf(Len(s), LAMBDA p : PatternMatch(s, p))

\* The scan of re.findall and re.split: from position p on, the matches
\* <<start, position after the match>>, leftmost first, not overlapping.
RECURSIVE scan_from(_, _)
scan_from(ends, p) ==
    IF \A q \in p..Len(ends) : ends[q] = 0 THEN <<>>
    ELSE With(CHOOSE q \in p..Len(ends) :
                  ends[q] # 0 /\ \A j \in p..(q - 1) : ends[j] = 0,
              LAMBDA q : <<<<q, ends[q]>>>> \o scan_from(ends, ends[q]))

scan(s) == With(match_ends(s), LAMBDA ends : scan_from(ends, 1))

\* re.findall(pattern, s): the matched texts.
re_findall(s) ==
    With(scan(s), LAMBDA m :
        SeqOf(Len(m), LAMBDA i : SubSeq(s, m[i][1], m[i][2] - 1)))

\* re.split(pattern, s): the text before, between and after the matches.
re_split(s) ==
    With(scan(s), LAMBDA m :
        SeqOf(Len(m) + 1, LAMBDA i :
            SubSeq(s,
                   IF i = 1 THEN 1 ELSE m[i - 1][2],
                   IF i > Len(m) THEN Len(s) ELSE m[i][1] - 1)))

(***************************************************************************)
(* Timestamp normalizer: pd.to_datetime(..., format="%m/%d/%y, %H:%M") and *)
(* its day-first twin.  pandas builds the regular expression of CPython's  *)
(* _strptime from the format (%m: 1[0-2]|0[1-9]|[1-9], %d: 3[01]|[12]\d|   *)
(* 0[1-9]|[1-9], %y: \d\d, %H: 2[0-3]|[0-1]\d|\d, %M: [0-5]\d|\d, a blank  *)
(* of the format: \s+), wants it to match the whole string, and then wants *)
(* the fields to be a date of the calendar.                                *)
(***************************************************************************)
IsLeap(y) == (y % 4 = 0 /\ y % 100 # 0) \/ y % 400 = 0

DaysInMonth(y, m) ==
    IF m = 2 THEN (IF IsLeap(y) THEN 29 ELSE 28)
    ELSE IF m \in {4, 6, 9, 11} THEN 30 ELSE 31

\* The digit run at p, when it is lo..hi long and one of lits follows it:
\* <<value, position after the literal>>, else <<0, 0>>.
Field(s, p, lo, hi, lits) ==
    With(AfterDigitsLit(s, p, lo, hi, lits), LAMBDA q :
        IF q = 0 THEN <<0, 0>> ELSE <<DecValue(SubSeq(s, p, q - 2)), q>>)

\* The digit run at p, when it is lo..hi long and ends the string.
LastField(s, p, lo, hi) ==
    IF p = 0 THEN <<0, 0>>
    ELSE With(RunLen(s, p, Digits), LAMBDA r :
            IF r >= lo /\ r <= hi /\ p + r = Len(s) + 1
            THEN <<DecValue(SubSeq(s, p, p + r - 1)), p + r>>
            ELSE <<0, 0>>)

\* \s+ at p: the position after it.
AfterBlanks(s, p) ==
    IF p = 0 THEN 0
    ELSE With(RunLen(s, p, Whitespace), LAMBDA r : IF r = 0 THEN 0 ELSE p + r)

NoTime == [ok |-> FALSE]

\* The fields read, as a time of the calendar (or the ValueError).
calendar_time(mo, dd, y2, hh, mi) ==
    With(IF y2 < 69 THEN 2000 + y2 ELSE 1900 + y2, LAMBDA yy :
        IF /\ mo \in 1..12
           /\ dd \in 1..31
           /\ hh \in 0..23
           /\ mi \in 0..59
           /\ dd <= DaysInMonth(yy, mo)
        THEN [ok |-> TRUE, year |-> yy, month |-> mo, day |-> dd,
              hour |-> hh, minute |-> mi]
        ELSE NoTime)

\* One string under one format; dayfirst tells "%d/%m/%y, %H:%M" from
\* "%m/%d/%y, %H:%M".  [ok |-> FALSE] stands for the ValueError.
strptime(s, dayfirst) ==
    With(Field(s, 1, 1, 2, {"/"}), LAMBDA f1 :
    With(Field(s, f1[2], 1, 2, {"/"}), LAMBDA f2 :
    With(Field(s, f2[2], 2, 2, {","}), LAMBDA f3 :
    With(AfterBlanks(s, f3[2]), LAMBDA pH :
    With(Field(s, pH, 1, 2, {":"}), LAMBDA fH :
    With(LastField(s, fH[2], 1, 2), LAMBDA fM :
        IF fM[2] = 0 THEN NoTime
        ELSE IF dayfirst
        THEN calendar_time(f2[1], f1[1], f3[1], fH[1], fM[1])
        ELSE calendar_time(f1[1], f2[1], f3[1], fH[1], fM[1])))))))

\* pd.to_datetime of a column: every string parses, or ValueError.
to_datetime(dates, dayfirst) ==
    With(SeqOf(Len(dates), LAMBDA i : strptime(dates[i], dayfirst)), LAMBDA ts :
        IF \A i \in 1..Len(ts) : ts[i].ok
        THEN [ok |-> TRUE,
              values |-> SeqOf(Len(ts), LAMBDA i :
                            [year |-> ts[i].year, month |-> ts[i].month,
                             day |-> ts[i].day, hour |-> ts[i].hour,
                             minute |-> ts[i].minute])]
        ELSE [ok |-> FALSE, values |-> <<>>])

\* Series.dt.month_name()
MonthNames ==
    <<"January", "February", "March", "April", "May", "June", "July",
      "August", "September", "October", "November", "December">>

month_name(t) == MonthNames[t.month]

\* helper.py's day_order / ordered_days
day_order ==
    <<"Monday", "Tuesday", "Wednesday", "Thursday", "Friday", "Saturday",
      "Sunday">>

MonthOffsets == <<0, 3, 2, 5, 0, 3, 5, 1, 4, 6, 2, 4>>

\* Days since Monday of the date's week (the proleptic Gregorian calendar).
weekday(t) ==
    With(IF t.month < 3 THEN t.year - 1 ELSE t.year, LAMBDA y :
        (y + (y \div 4) - (y \div 100) + (y \div 400)
           + MonthOffsets[t.month] + t.day + 6) % 7)

\* Series.dt.day_name()
day_name(t) == day_order[weekday(t) + 1]

(***************************************************************************)
(* Message classifier: re.split(r"([\w\W]+?):\s", message, maxsplit=1).    *)
(* The lazy group takes at least one character, so the split is at the     *)
(* first colon that is not the first character and has \s after it.        *)
(***************************************************************************)
SplitPoints(m) ==
    {k \in 2..(Len(m) - 1) : m[k] = ":" /\ m[k + 1] \in Whitespace}

Least(S) == CHOOSE k \in S : \A j \in S : k <= j

\* The split of a greedy group, ([\w\W]+):\s: at the last boundary.
classify_split_greedy(m) ==
    With(SplitPoints(m), LAMBDA pts :
        IF pts = {} THEN <<m>>
        ELSE With(CHOOSE k \in pts : \A j \in pts : j <= k, LAMBDA k :
                <<<<>>, SubSeq(m, 1, k - 1), SubSeq(m, k + 2, Len(m))>>))

\* entry of the loop of preprocess
classify_split(m) ==
    With(SplitPoints(m), LAMBDA pts :
        IF pts = {} THEN <<m>>
        ELSE With(Least(pts), LAMBDA k :
                <<<<>>, SubSeq(m, 1, k - 1), SubSeq(m, k + 2, Len(m))>>))

group_notification == Chars("group_notification")

\* The loop body of preprocess: <<user, message_content>> of one message.
classify(m) ==
    With(classify_split(m), LAMBDA e :
        IF Len(e) > 1 THEN <<e[2], e[3]>> ELSE <<group_notification, e[1]>>)

MediaOmitted == Chars("<Media omitted>")

(***************************************************************************)
(* Record builder: the DataFrame preprocess returns.  A DataFrame is its   *)
(* column labels, in order, and its rows, each a function of the labels.   *)
(***************************************************************************)
BaseColumns ==
    <<"date", "user", "message_content", "is_media", "year", "month", "day",
      "hour", "minute", "day_of_week">>

build_row(t, m) ==
    With(classify(m), LAMBDA um :
        [date |-> t, user |-> um[1], message_content |-> um[2],
         is_media |-> Contains(um[2], MediaOmitted),
         year |-> t.year, month |-> month_name(t), day |-> t.day,
         hour |-> t.hour, minute |-> t.minute, day_of_week |-> day_name(t)])

DataFrame(columns, rows) == [kind |-> "table", columns |-> columns, rows |-> rows]

Raised(exc) == [kind |-> "raised", exc |-> exc]

NoFrame == [kind |-> "none"]

\* The dates of the batch, as preprocess hands them to pd.to_datetime.
batch_dates(text) ==
    With(re_findall(text), LAMBDA found :
        SeqOf(Len(found), LAMBDA i : str_strip(found[i], {" ", "-"})))

\* The bodies without the [1:]: the preamble taken for the first message.
batch_messages_unshifted(text) ==
    With(re_split(text), LAMBDA parts :
        SeqOf(Len(parts), LAMBDA i : str_strip(parts[i], Whitespace)))

\* The message bodies of the batch, trimmed.
batch_messages(text) ==
    With(Tail(re_split(text)), LAMBDA parts :
        SeqOf(Len(parts), LAMBDA i : str_strip(parts[i], Whitespace)))

\* A fallback decided record by record instead of for the whole column.
convert_dates_per_record(dates) ==
    With(SeqOf(Len(dates), LAMBDA i :
            With(strptime(dates[i], FALSE), LAMBDA mf :
                IF mf.ok THEN mf ELSE strptime(dates[i], TRUE))),
         LAMBDA ts :
            IF \A i \in 1..Len(ts) : ts[i].ok
            THEN [ok |-> TRUE,
                  values |-> SeqOf(Len(ts), LAMBDA i :
                                [year |-> ts[i].year, month |-> ts[i].month,
                                 day |-> ts[i].day, hour |-> ts[i].hour,
                                 minute |-> ts[i].minute])]
            ELSE [ok |-> FALSE, values |-> <<>>])

\* The try/except cascade over the whole column.
convert_dates(dates) ==
    With(to_datetime(dates, FALSE), LAMBDA mf :
        IF mf.ok THEN mf ELSE to_datetime(dates, TRUE))

\* The frame of the batch, or what preprocess raises.  With no delimiter in
\* the text the frame has no rows, and the columns assigned from empty lists
\* are float64 or object depending on the pandas build, so that
\* .str.contains either raises AttributeError or yields the empty frame.
build_frame(dates, msgs) ==
    With(convert_dates(dates), LAMBDA conv :
        IF ~conv.ok THEN {Raised("ValueError")}
        ELSE IF Len(dates) = 0
        THEN {DataFrame(BaseColumns, <<>>), Raised("AttributeError")}
        ELSE {DataFrame(BaseColumns,
                        SeqOf(Len(dates), LAMBDA i :
                            build_row(conv.values[i], msgs[i])))})

\* What preprocess(text) can end in.
preprocess(text) ==
    With(batch_dates(text), LAMBDA dates :
    With(batch_messages(text), LAMBDA msgs : build_frame(dates, msgs)))

(***************************************************************************)
(* Sequences, as pandas and Python order them                              *)
(***************************************************************************)
\* The members of the index set S, ascending.
IndexSeq(S) ==
    With(S, LAMBDA T :
        SeqOf(Cardinality(T), LAMBDA k :
            CHOOSE i \in T : Cardinality({j \in T : j < i}) = k - 1))

\* The elements of seq that satisfy Keep, in order.
Select(seq, Keep(_)) ==
    With(seq, LAMBDA q :
    With(IndexSeq({i \in 1..Len(q) : Keep(q[i])}), LAMBDA idx :
        SeqOf(Len(idx), LAMBDA k : q[idx[k]])))

\* Series.unique(): the distinct values in order of first appearance.
unique(seq) ==
    With(seq, LAMBDA q :
    With(IndexSeq({i \in 1..Len(q) : \A j \in 1..(i - 1) : q[j] # q[i]}),
         LAMBDA idx : SeqOf(Len(idx), LAMBDA k : q[idx[k]])))

\* A stable sort: x before y when Before(x, y); equals keep their order.
StableSort(seq, Before(_, _)) ==
    With(seq, LAMBDA q :
    With(SeqOf(Len(q), LAMBDA i :
            1 + Cardinality({j \in 1..Len(q) :
                    \/ Before(q[j], q[i])
                    \/ (~Before(q[i], q[j]) /\ j < i)})),
         LAMBDA rank :
            SeqOf(Len(q), LAMBDA k : q[CHOOSE i \in 1..Len(q) : rank[i] = k])))

Count(seq, x) ==
    With(seq, LAMBDA q : Cardinality({i \in 1..Len(q) : q[i] = x}))

RECURSIVE Sum(_)
Sum(seq) == IF Len(seq) = 0 THEN 0 ELSE Head(seq) + Sum(Tail(seq))

RECURSIVE Flatten(_)
Flatten(seqs) ==
    IF Len(seqs) = 0 THEN <<>> ELSE Head(seqs) \o Flatten(Tail(seqs))

\* df[name]
Column(frame, name) == SeqOf(Len(frame.rows), LAMBDA i : frame.rows[i][name])

\* df[name] = values
set_column(frame, name, values) ==
    With(values, LAMBDA vs :
        [kind |-> "table",
         columns |-> IF \E i \in 1..Len(frame.columns) : frame.columns[i] = name
                     THEN frame.columns ELSE Append(frame.columns, name),
         rows |-> SeqOf(Len(frame.rows), LAMBDA i :
                      (name :> vs[i]) @@ frame.rows[i])])

\* n in decimal, at least `width` digits wide (strftime's %Y and %m).
RECURSIVE Decimal(_, _)
Decimal(n, width) ==
    IF n < 10 /\ width <= 1 THEN <<Ascii[17 + n]>>
    ELSE Append(Decimal(n \div 10, width - 1), Ascii[17 + (n % 10)])

(***************************************************************************)
(* helper.py: the Aggregator                                               *)
(***************************************************************************)
Overall == Chars("Overall")

\* df = df[df['user'] == selected_user], when selected_user != 'Overall':
\* boolean indexing makes a new frame.
filter_user(selected_user, frame) ==
    IF selected_user # Overall
    THEN [kind |-> "table", columns |-> frame.columns,
          rows |-> Select(frame.rows, LAMBDA r : r.user = selected_user)]
    ELSE frame

\* A filter applied in place: the local df is always the caller's object.
caller_frame_in_place(selected_user, frame, local) == local

\* The caller's frame after a function that assigned columns to its local
\* df: the local name is the caller's object unless the filter rebound it.
caller_frame(selected_user, frame, local) ==
    IF selected_user # Overall THEN frame ELSE local

\* len(message.split()): the starts of the runs that are no whitespace.
word_count(s) ==
    Cardinality({p \in 1..Len(s) :
                    /\ s[p] \notin Whitespace
                    /\ (p = 1 \/ s[p - 1] \in Whitespace)})

\* str.contains(r'http[s]?://|www\.')
has_link(s) ==
    \/ Contains(s, Chars("http://"))
    \/ Contains(s, Chars("https://"))
    \/ Contains(s, Chars("www."))

\* The tuple fetch_stats returns.
stats_of(body) ==
    [num_messages |-> Len(body),
     words |-> Sum(SeqOf(Len(body), LAMBDA i : word_count(body[i]))),
     num_media_messages |-> Len(Select(body, LAMBDA m : m = MediaOmitted)),
     num_links |-> Len(Select(body, LAMBDA m : has_link(m)))]

fetch_stats(selected_user, frame) ==
    With(Column(filter_user(selected_user, frame), "message_content"),
         LAMBDA body : stats_of(body))

get_user_list(frame) ==
    With(unique(Column(frame, "user")), LAMBDA users :
    With(Select(users, LAMBDA u : u # group_notification), LAMBDA real :
        <<Overall>> \o StableSort(real, LAMBDA a, b : StrLess(a, b))))

\* value_counts(): the distinct values with their counts, most frequent
\* first, equals in order of first appearance.
value_counts(seq) ==
    With(seq, LAMBDA q :
    With(unique(q), LAMBDA vals :
        StableSort(SeqOf(Len(vals), LAMBDA k : <<vals[k], Count(q, vals[k])>>),
                   LAMBDA a, b : a[2] > b[2])))

TopUsers == 5

\* DataFrame.head(n)
head(seq, n) ==
    With(seq, LAMBDA q : SubSeq(q, 1, IF Len(q) < n THEN Len(q) ELSE n))

\* user_counts of plot_most_busy_users_interactive
plot_most_busy_users_interactive(frame) ==
    head(value_counts(Column(frame, "user")), TopUsers)

\* [char for char in message if char in emoji.EMOJI_DATA]
extract_emojis(m) == Select(m, LAMBDA c : c \in EMOJI_DATA)

\* <<sum(emoji_counts.values()), emoji_df>>
emoji_analysis(frame, selected_user) ==
    With(Column(filter_user(selected_user, frame), "message_content"),
         LAMBDA body :
    With(Flatten(SeqOf(Len(body), LAMBDA i : extract_emojis(body[i]))),
         LAMBDA emojis : <<Len(emojis), value_counts(emojis)>>))

\* groupby(key).size(): one row per key present, keys ascending.
group_sizes(keys, Before(_, _)) ==
    With(keys, LAMBDA q :
    With(StableSort(unique(q), Before), LAMBDA ks :
        SeqOf(Len(ks), LAMBDA k : <<ks[k], Count(q, ks[k])>>)))

\* dt.to_period('M').dt.strftime('%Y-%m')
month_year(t) == Decimal(t.year, 4) \o <<"-">> \o Decimal(t.month, 2)

\* The local df of plot_monthly_timeline after the column assignment.
monthly_timeline_frame(selected_user, frame) ==
    With(filter_user(selected_user, frame), LAMBDA view :
        set_column(view, "month_year",
                   SeqOf(Len(view.rows), LAMBDA i : month_year(view.rows[i].date))))

\* monthly_counts of plot_monthly_timeline
plot_monthly_timeline(selected_user, frame) ==
    group_sizes(Column(monthly_timeline_frame(selected_user, frame), "month_year"),
                LAMBDA a, b : StrLess(a, b))

DateBefore(a, b) ==
    \/ a.year < b.year
    \/ (a.year = b.year /\ a.month < b.month)
    \/ (a.year = b.year /\ a.month = b.month /\ a.day < b.day)

\* Series.dt.date
date_of(t) == [year |-> t.year, month |-> t.month, day |-> t.day]

\* daily_counts of plot_daily_timeline
plot_daily_timeline(selected_user, frame) ==
    With(filter_user(selected_user, frame), LAMBDA view :
        group_sizes(SeqOf(Len(view.rows), LAMBDA i : date_of(view.rows[i].date)),
                    DateBefore))

\* The local df of plot_interactive_activity_analysis after the assignment.
activity_analysis_frame(selected_user, frame) ==
    With(filter_user(selected_user, frame), LAMBDA view :
        set_column(view, "day_name",
                   SeqOf(Len(view.rows), LAMBDA i : day_name(view.rows[i].date))))

\* groupby of the categorical day_name: every category has a row
\* (observed=False, the default of groupby in pandas 1.x and 2.x).
weekly_activity(local) ==
    With(Column(local, "day_name"), LAMBDA names :
        SeqOf(Len(day_order), LAMBDA k :
            <<day_order[k], Count(names, day_order[k])>>))

\* groupby(df["date"].dt.hour).size()
hourly_activity(local) ==
    group_sizes(SeqOf(Len(local.rows), LAMBDA i : local.rows[i].date.hour),
                LAMBDA a, b : a < b)

\* <<weekly_activity, hourly_activity>>, the data of the two bar charts
plot_interactive_activity_analysis(frame, selected_user) ==
    With(activity_analysis_frame(selected_user, frame), LAMBDA local :
        <<weekly_activity(local), hourly_activity(local)>>)

\* The caller's frame after plot_activity_heatmap_matplotlib assigned
\* day_of_week and hour to it.
heatmap_frame(frame) ==
    With(set_column(frame, "day_of_week",
                    SeqOf(Len(frame.rows), LAMBDA i : day_name(frame.rows[i].date))),
         LAMBDA named :
            set_column(named, "hour",
                       SeqOf(Len(named.rows), LAMBDA i : named.rows[i].date.hour)))

NaN == [nan |-> TRUE, value |-> 0]

Number(n) == [nan |-> FALSE, value |-> n]

DayNameLess(a, b) == StrLess(Chars(a), Chars(b))

\* The records of a cell of the pivot table.
cell_count(local, d, h) ==
    Cardinality({i \in 1..Len(local.rows) :
                    local.rows[i].day_of_week = d /\ local.rows[i].hour = h})

\* pivot_table(index, columns, values, aggfunc="count").fillna(0): the days
\* and the hours that occur, each ascending; a cell counts its records
\* (message_content is never null), and a cell without records is 0.
pivot_table(local) ==
    With(StableSort(unique(Column(local, "day_of_week")), DayNameLess), LAMBDA days :
    With(StableSort(unique(Column(local, "hour")), LAMBDA a, b : a < b), LAMBDA hours :
        [index |-> days, columns |-> hours,
         values |-> SeqOf(Len(days), LAMBDA i :
                       SeqOf(Len(hours), LAMBDA j :
                           Number(cell_count(local, days[i], hours[j]))))]))

\* DataFrame.reindex(labels): the rows in the order of labels; a label that
\* is no row of the frame gets a row of NaN.
reindex(grid, labels) ==
    With(grid, LAMBDA g :
        [index |-> labels, columns |-> g.columns,
         values |-> SeqOf(Len(labels), LAMBDA i :
                       IF \E r \in 1..Len(g.index) : g.index[r] = labels[i]
                       THEN g.values[CHOOSE r \in 1..Len(g.index) :
                                         g.index[r] = labels[i]]
                       ELSE SeqOf(Len(g.columns), LAMBDA j : NaN))])

\* heatmap_data of plot_activity_heatmap_matplotlib
plot_activity_heatmap_matplotlib(frame) ==
    With(heatmap_frame(frame), LAMBDA local : reindex(pivot_table(local), day_order))

(***************************************************************************)
(* The uploaded transcripts                                                *)
(***************************************************************************)
MaxRows == 2

MaxMsgs == 2

MaxBodyLen == 6

\* The sequences over 1..n of length at most k.
RECURSIVE SeqsUpTo(_, _)
SeqsUpTo(n, k) ==
    IF k = 0 THEN {<<>>}
    ELSE LET shorter == SeqsUpTo(n, k - 1)
         IN  shorter \cup {Append(q, i) : q \in shorter, i \in 1..n}

\* The lines of the chats analysed in a session.
SessionLines ==
    << Chars("1/2/24, 10:00 - Al: hi ") \o <<"U+1F600", "U+1F600", "\n">>,
       Chars("1/2/24, 10:05 - Bo: <Media omitted>\n"),
       Chars("2/15/24, 9:30 - Al: see <Media omitted> www.x.io ") \o <<"U+1F602", "\n">>,
       Chars("1/3/24, 23:10 - Overall: yo ") \o <<"U+1F602", "\n">>,
       Chars("1/2/24, 10:07 - Bo left\n"),
       Chars("12/5/23, 8:00 - Cy: a: b\nhttps://c.d\n") >>

\* The lines of the transcripts handed to the parser.
ParseLines ==
    << Chars("1/2/24, 10:00 - Al: hi\n"),
       Chars("31/1/24, 9:05 - joined\n"),
       Chars("1/31/24, 23:59 - Al: a: b\nc\n"),
       Chars("01/02/2024, 10:00 - Bo: yo\n"),
       Chars("1/2/24, 10:00 -\nAl: hi\n"),
       Chars("30/2/24, 9:05 - Bo: x\n"),
       Chars("3/4/24, 7:00 - "),
       Chars("5/6/24, 8:15 - Al: 1"),
       Chars("7/8/24, 12:30 -  Bo:\tx  \n"),
       Chars("9/10/24, 18:45 - Al: at 1/2/24, ok\n") >>

Preambles == {<<>>, Chars("Chat export\n")}

Transcripts(lines, k) ==
    {Flatten([i \in 1..Len(q) |-> lines[q[i]]]) : q \in SeqsUpTo(Len(lines), k)}

\* The message bodies the classifier is handed: trimmed text.
BodyAlphabet == {"A", ":", " ", "\n"}

RECURSIVE Texts(_)
Texts(k) ==
    IF k = 0 THEN {<<>>}
    ELSE LET shorter == Texts(k - 1)
         IN  shorter \cup {Append(t, c) : t \in shorter, c \in BodyAlphabet}

Bodies == {t \in Texts(MaxBodyLen) : str_strip(t, Whitespace) = t}

(***************************************************************************)
(* The session of app.py: the upload is parsed once, and the analyses are  *)
(* then run on the session's frame, in any order and any number of times.  *)
(***************************************************************************)
Nothing == [op |-> "none"]

Returned(op, selected_user, result) ==
    [op |-> op, selected_user |-> selected_user, result |-> result]

\* The filter values an analysis is asked for: all senders, each sender of
\* the frame, and a sender without a record.
Filters(frame) ==
    {Overall, Chars("Zed")} \cup {frame.rows[i].user : i \in 1..Len(frame.rows)}

\* The upload of a session is an export with at least one message line.
Init ==
    /\ data \in Transcripts(SessionLines, MaxRows) \ {<<>>}
    /\ df = NoFrame
    /\ out = Nothing
    /\ message = <<>>
    /\ entry = <<>>

\* df = preprocess(data)
Preprocess ==
    /\ df = NoFrame
    /\ df' \in preprocess(data)
    /\ UNCHANGED <<data, out, message, entry>>

FetchStats ==
    /\ df.kind = "table"
    /\ \E u \in Filters(df) :
          out' = Returned("fetch_stats", u, fetch_stats(u, df))
    /\ UNCHANGED <<data, df, message, entry>>

GetUserList ==
    /\ df.kind = "table"
    /\ out' = Returned("get_user_list", Overall, get_user_list(df))
    /\ UNCHANGED <<data, df, message, entry>>

PlotMostBusyUsers ==
    /\ df.kind = "table"
    /\ out' = Returned("plot_most_busy_users_interactive", Overall,
                       plot_most_busy_users_interactive(df))
    /\ UNCHANGED <<data, df, message, entry>>

EmojiAnalysis ==
    /\ df.kind = "table"
    /\ \E u \in Filters(df) :
          out' = Returned("emoji_analysis", u, emoji_analysis(df, u))
    /\ UNCHANGED <<data, df, message, entry>>

PlotMonthlyTimeline ==
    /\ df.kind = "table"
    /\ \E u \in Filters(df) :
          /\ out' = Returned("plot_monthly_timeline", u, plot_monthly_timeline(u, df))
          /\ df' = caller_frame(u, df, monthly_timeline_frame(u, df))
    /\ UNCHANGED <<data, message, entry>>

PlotDailyTimeline ==
    /\ df.kind = "table"
    /\ \E u \in Filters(df) :
          out' = Returned("plot_daily_timeline", u, plot_daily_timeline(u, df))
    /\ UNCHANGED <<data, df, message, entry>>

PlotInteractiveActivityAnalysis ==
    /\ df.kind = "table"
    /\ \E u \in Filters(df) :
          /\ out' = Returned("plot_interactive_activity_analysis", u,
                             plot_interactive_activity_analysis(df, u))
          /\ df' = caller_frame(u, df, activity_analysis_frame(u, df))
    /\ UNCHANGED <<data, message, entry>>

PlotActivityHeatmap ==
    /\ df.kind = "table"
    /\ out' = Returned("plot_activity_heatmap_matplotlib", Overall,
                       plot_activity_heatmap_matplotlib(df))
    /\ df' = heatmap_frame(df)
    /\ UNCHANGED <<data, message, entry>>

Next ==
    \/ Preprocess
    \/ FetchStats
    \/ GetUserList
    \/ PlotMostBusyUsers
    \/ EmojiAnalysis
    \/ PlotMonthlyTimeline
    \/ PlotDailyTimeline
    \/ PlotInteractiveActivityAnalysis
    \/ PlotActivityHeatmap

Spec == Init /\ [][Next]_vars

\* The parser alone, on transcripts with every kind of timestamp and body.
InitParse ==
    /\ data \in {pre \o t : pre \in Preambles, t \in Transcripts(ParseLines, MaxMsgs)}
    /\ df = NoFrame
    /\ out = Nothing
    /\ message = <<>>
    /\ entry = <<>>

NextParse == Preprocess

SpecParse == InitParse /\ [][NextParse]_vars

\* The classifier alone, on every trimmed body over a small alphabet.
InitClassify ==
    /\ message \in Bodies
    /\ entry = <<>>
    /\ out = Nothing
    /\ data = <<>>
    /\ df = NoFrame

\* One turn of the loop of preprocess over df["raw_message"].
Classify ==
    /\ entry = <<>>
    /\ entry' = classify_split(message)
    /\ out' = Returned("classify", message, classify(message))
    /\ UNCHANGED <<data, df, message>>

NextClassify == Classify

SpecClassify == InitClassify /\ [][NextClassify]_vars

(***************************************************************************)
(* The claims                                                              *)
(***************************************************************************)
\* The frame preprocess returned for the upload, before any analysis.
Parsed(t) == t \in preprocess(data) /\ t.kind = "table"

ColumnSet(frame) == {frame.columns[i] : i \in 1..Len(frame.columns)}

SameTable(a, b) ==
    /\ ColumnSet(a) = ColumnSet(b)
    /\ Len(a.rows) = Len(b.rows)
    /\ \A i \in 1..Len(a.rows) : \A c \in ColumnSet(a) : a.rows[i][c] = b.rows[i][c]

\* The records of the frame the filter selects.
Selected(frame, u) ==
    {i \in 1..Len(frame.rows) : u = Overall \/ frame.rows[i].user = u}

\* C1: no Aggregator operation mutates the transcript table: after any
\* sequence of analyses the session's frame has the columns and the cells
\* preprocess gave it.
C1_TableNeverMutated ==
    df.kind = "table" => \E t \in preprocess(data) : Parsed(t) /\ SameTable(df, t)

\* What an analysis returns for (selected_user, frame).
Summary(op, u, frame) ==
    CASE op = "fetch_stats" -> fetch_stats(u, frame)
      [] op = "get_user_list" -> get_user_list(frame)
      [] op = "plot_most_busy_users_interactive" -> plot_most_busy_users_interactive(frame)
      [] op = "emoji_analysis" -> emoji_analysis(frame, u)
      [] op = "plot_monthly_timeline" -> plot_monthly_timeline(u, frame)
      [] op = "plot_daily_timeline" -> plot_daily_timeline(u, frame)
      [] op = "plot_interactive_activity_analysis" ->
             plot_interactive_activity_analysis(frame, u)
      [] op = "plot_activity_heatmap_matplotlib" -> plot_activity_heatmap_matplotlib(frame)

\* C2: the summary an analysis returns does not depend on the analyses run
\* before it: whatever the history of the session, it is the summary the
\* same call returns on the freshly parsed table.
C2_SummaryIndependentOfHistory ==
    (df.kind = "table" /\ out.op # "none") =>
        \A t \in preprocess(data) :
            Parsed(t) => out.result = Summary(out.op, out.selected_user, t)

\* C2's case: a filtered summary returned after analyses that added columns
\* to the session's frame.
C2_Witness ==
    /\ df.kind = "table"
    /\ Len(df.columns) = Len(BaseColumns) + 2
    /\ out.op = "fetch_stats"
    /\ out.selected_user # Overall
    /\ out.result.num_messages > 0
    /\ out.result.num_messages < Len(df.rows)

Hours == [h \in 1..24 |-> h - 1]

\* C3: the weekday summary has exactly the 7 rows Monday..Sunday and the
\* hourly summary exactly the 24 rows 0..23, each with the number of the
\* selected records of that weekday or hour, 0 when there is none.
C3_WeekdayAndHourZeroFilled ==
    (df.kind = "table" /\ out.op = "plot_interactive_activity_analysis") =>
        LET sel == Selected(df, out.selected_user)
            weekly == out.result[1]
            hourly == out.result[2]
        IN  /\ Len(weekly) = 7
            /\ \A k \in 1..7 :
                  /\ weekly[k][1] = day_order[k]
                  /\ weekly[k][2] =
                       Cardinality({i \in sel : day_name(df.rows[i].date) = day_order[k]})
            /\ Len(hourly) = 24
            /\ \A k \in 1..Len(hourly) :
                  /\ hourly[k][1] = Hours[k]
                  /\ hourly[k][2] =
                       Cardinality({i \in sel : df.rows[i].date.hour = Hours[k]})

\* C4: the weekday-by-hour grid is a 7 x 24 matrix, rows Monday..Sunday and
\* columns 0..23, each cell the number of records of that weekday and hour,
\* 0 (never a missing value) where there is none.
C4_GridIsFull7By24 ==
    (df.kind = "table" /\ out.op = "plot_activity_heatmap_matplotlib") =>
        /\ out.result.index = day_order
        /\ out.result.columns = Hours
        /\ \A r \in 1..Len(out.result.values) :
              \A c \in 1..Len(out.result.values[r]) :
                 /\ ~out.result.values[r][c].nan
                 /\ out.result.values[r][c].value =
                      Cardinality({i \in 1..Len(df.rows) :
                          /\ day_name(df.rows[i].date) = out.result.index[r]
                          /\ df.rows[i].date.hour = out.result.columns[c]})

\* A colon with whitespace after it that is not the body's first character.
Boundary(m, k) == k >= 2 /\ k < Len(m) /\ m[k] = ":" /\ m[k + 1] \in Whitespace

\* A colon with a space after it, wherever it stands.
ColonSpace(m, k) == k >= 1 /\ k < Len(m) /\ m[k] = ":" /\ m[k + 1] = " "

\* C5 as stated: the body is split at its first colon-space (sender the text
\* before it, content everything after it), a body without colon-space has
\* the sentinel as sender and is all content, and sender is never empty.
C5_SplitAtFirstColonSpace ==
    out.op = "classify" =>
        LET m == message
            user == out.result[1]
            content == out.result[2]
        IN  /\ (\E k \in 1..Len(m) : ColonSpace(m, k)) =>
                  \E k \in 1..Len(m) :
                     /\ ColonSpace(m, k)
                     /\ \A j \in 1..(k - 1) : ~ColonSpace(m, j)
                     /\ user = SubSeq(m, 1, k - 1)
                     /\ content = SubSeq(m, k + 2, Len(m))
            /\ (~\E k \in 1..Len(m) : ColonSpace(m, k)) =>
                  (user = group_notification /\ content = m)
            /\ user # <<>>

\* C5, amended: the body is split at the first colon that is not its first
\* character and has a whitespace character after it (sender the text before
\* the colon, content everything after the whitespace character); a body
\* without such a colon has the sentinel as sender and is all content; and
\* sender is never empty.
C5_SplitAtFirstBoundary ==
    out.op = "classify" =>
        LET m == message
            user == out.result[1]
            content == out.result[2]
        IN  /\ (\E k \in 1..Len(m) : Boundary(m, k)) =>
                  \E k \in 1..Len(m) :
                     /\ Boundary(m, k)
                     /\ \A j \in 1..(k - 1) : ~Boundary(m, j)
                     /\ user = SubSeq(m, 1, k - 1)
                     /\ content = SubSeq(m, k + 2, Len(m))
            /\ (~\E k \in 1..Len(m) : Boundary(m, k)) =>
                  (user = group_notification /\ content = m)
            /\ user # <<>>

\* C5's case: a classified body that starts with a colon and has two
\* boundaries after it.
C5_Witness ==
    /\ out.op = "classify"
    /\ Len(message) > 0
    /\ message[1] = ":"
    /\ Cardinality({k \in 1..Len(message) : Boundary(message, k)}) = 2
    /\ out.result[1] # group_notification

\* C6: the media count of fetch_stats is the number of selected records
\* whose is_media flag is true.
C6_MediaCountIsFlagCount ==
    (df.kind = "table" /\ out.op = "fetch_stats") =>
        out.result.num_media_messages =
            Cardinality({i \in Selected(df, out.selected_user) : df.rows[i].is_media})

\* The timestamps of the upload as the tokenizer hands them to to_datetime.
Stamps == batch_dates(data)

AllParse(dayfirst) == \A i \in 1..Len(Stamps) : strptime(Stamps[i], dayfirst).ok

\* The calendar fields a timestamp has under a convention.
ReadAs(stamp, dayfirst) ==
    LET t == strptime(stamp, dayfirst)
    IN  [year |-> t.year, month |-> t.month, day |-> t.day,
         hour |-> t.hour, minute |-> t.minute]

RowsReadAs(dayfirst) ==
    /\ df.kind = "table"
    /\ AllParse(dayfirst)
    /\ Len(df.rows) = Len(Stamps)
    /\ \A i \in 1..Len(Stamps) :
          LET t == ReadAs(Stamps[i], dayfirst)
              d == df.rows[i].date
          IN  /\ d.year = t.year /\ d.month = t.month /\ d.day = t.day
              /\ d.hour = t.hour /\ d.minute = t.minute

\* C7: one date-order convention per batch: every timestamp is read
\* month-first if all of them parse month-first, else every timestamp is
\* read day-first if all of them parse day-first, else preprocess raises and
\* returns no table; the records of one table are never read under both.
C7_OneConventionPerBatch ==
    (df.kind # "none" /\ Len(Stamps) > 0) =>
        /\ AllParse(FALSE) => RowsReadAs(FALSE)
        /\ (~AllParse(FALSE) /\ AllParse(TRUE)) => RowsReadAs(TRUE)
        /\ (~AllParse(FALSE) /\ ~AllParse(TRUE)) => df = Raised("ValueError")
        /\ df.kind = "table" => (RowsReadAs(FALSE) \/ RowsReadAs(TRUE))

\* C7's case: a table read day-first although one of its timestamps alone
\* parses month-first, to another day.
C7_Witness ==
    /\ df.kind = "table"
    /\ Len(df.rows) = 2
    /\ ~AllParse(FALSE)
    /\ \E i \in 1..Len(Stamps) :
          /\ strptime(Stamps[i], FALSE).ok
          /\ ReadAs(Stamps[i], FALSE) # ReadAs(Stamps[i], TRUE)
          /\ df.rows[i].date.month = ReadAs(Stamps[i], TRUE).month

AllDigits(s, p, n) == \A i \in p..(p + n - 1) : i <= Len(s) /\ s[i] \in Digits

CharAt(s, p, set) == p >= 1 /\ p <= Len(s) /\ s[p] \in set

\* s[p..e-1] has the shape of the delimiter: date, comma, time, dash.
DelimiterShape(s, p, e) ==
    \E a \in 1..2, b \in 1..2, c \in 2..4, h \in 1..2 :
        LET q1 == p + a
            q2 == q1 + 1 + b
            q3 == q2 + 1 + c
            q4 == q3 + 2 + h
        IN  /\ e = q4 + 6
            /\ AllDigits(s, p, a) /\ CharAt(s, q1, {"/"})
            /\ AllDigits(s, q1 + 1, b) /\ CharAt(s, q2, {"/"})
            /\ AllDigits(s, q2 + 1, c) /\ CharAt(s, q3, {","})
            /\ CharAt(s, q3 + 1, Whitespace)
            /\ AllDigits(s, q3 + 2, h) /\ CharAt(s, q4, {":"})
            /\ AllDigits(s, q4 + 1, 2)
            /\ CharAt(s, q4 + 3, Whitespace) /\ CharAt(s, q4 + 4, {"-"})
            /\ CharAt(s, q4 + 5, Whitespace)

StartsDelimiter(s, p) == \E e \in (p + 15)..(p + 20) : DelimiterShape(s, p, e)

\* The delimiter matches of s from position from on, leftmost first and
\* without overlap, each as <<start, end + 1>>.
RECURSIVE DelimiterMatches(_, _)
DelimiterMatches(s, from) ==
    IF \E p \in from..Len(s) : StartsDelimiter(s, p)
    THEN LET p == CHOOSE q \in from..Len(s) :
                     /\ StartsDelimiter(s, q)
                     /\ \A r \in from..(q - 1) : ~StartsDelimiter(s, r)
             e == CHOOSE x \in (p + 15)..(p + 20) : DelimiterShape(s, p, x)
         IN  <<<<p, e>>>> \o DelimiterMatches(s, e)
    ELSE <<>>

\* seg without its leading and trailing whitespace.
TrimOf(seg) ==
    LET keep == {k \in 1..Len(seg) : seg[k] \notin Whitespace}
    IN  IF keep = {} THEN <<>>
        ELSE SubSeq(seg, CHOOSE k \in keep : \A j \in keep : k <= j,
                         CHOOSE k \in keep : \A j \in keep : j <= k)

\* The record holds the body: whole as content under the sentinel, or as
\* sender, colon, one whitespace character and content.
RowHoldsBody(row, body) ==
    \/ row.user = group_notification /\ row.message_content = body
    \/ \E w \in Whitespace : body = row.user \o <<":", w>> \o row.message_content

\* The numbers written in a text, in order.
Numbers(text) ==
    LET starts == {i \in 1..Len(text) :
                      text[i] \in Digits /\ (i = 1 \/ text[i - 1] \notin Digits)}
        nth(k) == CHOOSE i \in starts : Cardinality({j \in starts : j < i}) = k - 1
        stop(i) == CHOOSE j \in i..Len(text) :
                      /\ \A x \in i..j : text[x] \in Digits
                      /\ (j = Len(text) \/ text[j + 1] \notin Digits)
    IN  [k \in 1..Cardinality(starts) |-> DecValue(SubSeq(text, nth(k), stop(nth(k))))]

\* The record's timestamp is the one the matched text writes.
RowHoldsStamp(row, text) ==
    LET n == Numbers(text)
    IN  /\ Len(n) = 5
        /\ \/ row.date.month = n[1] /\ row.date.day = n[2]
           \/ row.date.month = n[2] /\ row.date.day = n[1]
        /\ row.date.year % 100 = n[3]
        /\ row.date.hour = n[4]
        /\ row.date.minute = n[5]
        /\ row.year = row.date.year /\ row.day = row.date.day
        /\ row.hour = row.date.hour /\ row.minute = row.date.minute

\* C8: an input that parses gives exactly one record per delimiter match,
\* in input order: the body of record i is the trimmed text between the end
\* of match i and the start of match i+1 (the end of the input for the last),
\* newlines inside it included, its timestamp is the one match i writes, and
\* the text before the first match is in no record.
C8_OneRecordPerMatch ==
    df.kind = "table" =>
        LET M == DelimiterMatches(data, 1)
            upto(i) == IF i < Len(M) THEN M[i + 1][1] - 1 ELSE Len(data)
        IN  /\ Len(df.rows) = Len(M)
            /\ \A i \in 1..Len(M) :
                  /\ RowHoldsBody(df.rows[i], TrimOf(SubSeq(data, M[i][2], upto(i))))
                  /\ RowHoldsStamp(df.rows[i], SubSeq(data, M[i][1], M[i][2] - 1))

\* C8's case: a two-record table of an upload that has a preamble, a body
\* on two lines and a body after the last match.
C8_Witness ==
    /\ df.kind = "table"
    /\ Len(df.rows) = 2
    /\ data[1] \notin Digits
    /\ \E i \in 1..2 : \E k \in 1..Len(df.rows[i].message_content) :
          df.rows[i].message_content[k] = "\n"
    /\ df.rows[1].message_content # df.rows[2].message_content

\* C9: the per-sender message counts of fetch_stats partition the table:
\* for every sender in the table the count is the number of that sender's
\* records, the counts of the distinct senders add up to the count for
\* "Overall", and get_user_list holds "Overall" exactly once.
C9_SenderCountsPartition ==
    df.kind = "table" =>
        LET senders == unique(Column(df, "user"))
        IN  /\ \A k \in 1..Len(senders) :
                  fetch_stats(senders[k], df).num_messages =
                      Cardinality({i \in 1..Len(df.rows) : df.rows[i].user = senders[k]})
            /\ Sum([k \in 1..Len(senders) |-> fetch_stats(senders[k], df).num_messages])
                  = fetch_stats(Overall, df).num_messages
            /\ Count(get_user_list(df), Overall) = 1

\* The matched text writes a real calendar date and time under the
\* convention.
WritesRealDate(text, dayfirst) ==
    LET n == Numbers(text)
        mo == IF dayfirst THEN n[2] ELSE n[1]
        dd == IF dayfirst THEN n[1] ELSE n[2]
        yy == IF n[3] >= 100 THEN n[3] ELSE IF n[3] < 69 THEN 2000 + n[3] ELSE 1900 + n[3]
    IN  /\ Len(n) = 5
        /\ mo \in 1..12
        /\ dd >= 1 /\ dd <= DaysInMonth(yy, mo)
        /\ n[4] \in 0..23
        /\ n[5] \in 0..59

\* C10: the tokenizer and the normalizer accept the same timestamps: an
\* upload whose matched timestamps all write a real date and time under one
\* common convention, four-digit years included, is normalized to a table.
C10_MatchedRealDatesAccepted ==
    LET M == DelimiterMatches(data, 1)
    IN  (/\ df.kind # "none"
         /\ Len(M) > 0
         /\ \E dayfirst \in BOOLEAN :
               \A i \in 1..Len(M) :
                  WritesRealDate(SubSeq(data, M[i][1], M[i][2] - 1), dayfirst))
        => df.kind = "table"

=============================================================================
